---- MODULE Spec2Model ----
(***************************************************************************)
(* Articles-2 (src/src/main.rs): an actix-web service over three Postgres  *)
(* tables (articles, article_media, comments) and an upload directory.     *)
(* Every request handler is a process; every awaited SQL statement is one  *)
(* atomic step on the shared store, so handlers interleave between their   *)
(* statements exactly as the pool lets them.                               *)
(***************************************************************************)
EXTENDS Integers, Sequences, FiniteSets, TLC

VARIABLES
    articles,         \* table articles: id -> [title, body, bump_time]
    article_media,    \* table article_media, heap order: [article_id, media_path]
    comments,         \* table comments, heap order: [id, article_id, comment]
    articles_id_seq,  \* last value issued for articles.id
    comments_id_seq,  \* last value issued for comments.id
    uploads,          \* ./uploads: file name -> bytes, for the files that exist
    now,              \* Utc::now().timestamp()
    req               \* the task of each inbound request

vars == <<articles, article_media, comments, articles_id_seq, comments_id_seq,
          uploads, now, req>>

store == <<articles, article_media, comments>>

----------------------------------------------------------------------------
(* Bounds of the model *)

MaxArticles == 2
MaxComments == 2
MaxTime == 1
MaxRequests == 2
MaxFields == 1

(* Program constants and input alphabets *)

ADMIN_PASSWORD == "changeme"

\* One task per inbound request, numbered in the order of arrival.
Tasks == 1..MaxRequests
Passwords == {ADMIN_PASSWORD, "letmein"}
\* The (title, body) pairs a form submits: two valid ones and the empty cases.
Contents ==
    {[title |-> "T1", body |-> "B1"], [title |-> "T2", body |-> "B2"],
     [title |-> "", body |-> "B1"], [title |-> "T1", body |-> ""]}
\* The edit forms: the password page posts mode "check" alone, the edit page
\* posts mode "save" with a title and a body, and a client may post any mode.
EditForms ==
    {[mode |-> "check", title |-> "", body |-> ""],
     [mode |-> "", title |-> "T2", body |-> "B2"]}
    \cup {[mode |-> "save", title |-> c.title, body |-> c.body] : c \in Contents}
CommentTexts == {"", "hi"}
FileNames == {"a.png", "b.png"}
Bytes == {"", "x", "y"}
ArticleIds == 1..MaxArticles
CommentIds == 1..MaxComments

\* One multipart field named "media": its filename (if any) and its value.
MediaFields == [filename : {<<>>} \cup {<<f>> : f \in FileNames}, value : Bytes]

RECURSIVE SeqsUpTo(_, _)
SeqsUpTo(S, n) ==
    IF n = 0 THEN {<<>>}
    ELSE LET shorter == SeqsUpTo(S, n - 1)
         IN  shorter \cup {Append(s, x) : s \in {t \in shorter : Len(t) = n - 1}, x \in S}

MediaFieldLists == SeqsUpTo(MediaFields, MaxFields)

----------------------------------------------------------------------------
(* The request record: the handler's arguments and locals, its place in the *)
(* handler (pc), the response, and row: the id of the comment row it has    *)
(* inserted, which the database knows and the handler does not read.        *)

Idle ==
    [handler |-> "none", pc |-> "idle", id |-> 0, password |-> "", mode |-> "",
     title |-> "", body |-> "", comment |-> "", media_paths |-> <<>>,
     new_media |-> <<>>, bump_time |-> 0, article_id |-> <<>>, next |-> 1,
     out |-> <<>>, comments |-> <<>>, row |-> <<>>, resp |-> "none", text |-> ""]

\* Request p arrives: the requests before it have arrived.
Arrives(p) ==
    /\ req[p].pc = "idle"
    /\ IF p = 1 THEN TRUE ELSE req[p - 1].pc # "idle"

\* The response: its status, and its body or (for a redirect) its Location.
Respond(r, status, text) == [r EXCEPT !.pc = "done", !.resp = status, !.text = text]

----------------------------------------------------------------------------
(* The relational store.  The handlers rely on the schema for two things:  *)
(* article_media.article_id and comments.article_id are foreign keys to    *)
(* articles.id, and deleting an article row cascades to both tables.       *)

\* A schema whose article_id columns are plain integers.
NoForeignKey(a) == TRUE

\* The foreign key: a child row may be inserted only under an existing parent.
ForeignKeyHolds(a) == a \in DOMAIN articles

\* DELETE FROM <rows> WHERE article_id = a: the rows that are left.
DeleteRowsOf(rows, a) == SelectSeq(rows, LAMBDA row : row.article_id # a)

\* ON DELETE CASCADE: the child rows that survive the deletion of article a.
CascadeRows(rows, a) == DeleteRowsOf(rows, a)

\* The rows a statement's WHERE article_id = a selects, in heap order.
RowsOf(rows, a) == SelectSeq(rows, LAMBDA row : row.article_id = a)

\* fetch_all of a SELECT without ORDER BY: the selected rows in the order of
\* the scan, which the statement leaves to the database.
ScanOrders(rows) ==
    {[i \in 1..Len(rows) |-> rows[f[i]]] :
        f \in {g \in [1..Len(rows) -> 1..Len(rows)] :
                  \A i, j \in 1..Len(rows) : g[i] = g[j] => i = j}}

\* SELECT ... FROM articles WHERE id = a, fetch_one on the table rows: is
\* there a row?
ArticleFound(rows, a) == a \in DOMAIN rows

HasComment(c) == \E i \in 1..Len(comments) : comments[i].id = c

----------------------------------------------------------------------------
(* The upload area *)

\* sanitize(): the names of FileNames hold no character it strips.
sanitize(fname) == fname

StoredPath(fname) == "/uploads/article_" \o sanitize(fname)

\* File::create followed by write_all of the whole value.
WriteFile(files, fname, value) ==
    [n \in DOMAIN files \cup {StoredPath(fname)} |->
        IF n = StoredPath(fname) THEN value ELSE files[n]]

\* An I/O failure: at which media field, and in which call.
NoFailure == [at |-> 0, op |-> "none"]
IoFailures ==
    {NoFailure} \cup [at : 1..MaxFields, op : {"create", "write"}]

----------------------------------------------------------------------------
(* submit_article: POST /submit *)

\* The multipart loop over the "media" fields: each field with a filename is
\* written to ./uploads and its path pushed; an I/O error ends the request.
RECURSIVE SubmitArticleFields(_, _, _, _, _)
SubmitArticleFields(fields, i, files, paths, fail) ==
    IF i > Len(fields)
    THEN [uploads |-> files, media_paths |-> paths, ok |-> TRUE]
    ELSE IF fields[i].filename = <<>>
    THEN SubmitArticleFields(fields, i + 1, files, paths, fail)
    ELSE IF fail = [at |-> i, op |-> "create"]
    THEN [uploads |-> files, media_paths |-> paths, ok |-> FALSE]
    ELSE IF fail = [at |-> i, op |-> "write"]
    THEN [uploads |-> WriteFile(files, fields[i].filename[1], ""),
          media_paths |-> paths, ok |-> FALSE]
    ELSE SubmitArticleFields(fields, i + 1,
             WriteFile(files, fields[i].filename[1], fields[i].value),
             Append(paths, StoredPath(fields[i].filename[1])), fail)

\* Creates that hold or will take a value of articles_id_seq.
PendingCreates ==
    Cardinality({t \in Tasks : req[t].pc = "insert_article"})

submit_article_parse(p) ==
    /\ Arrives(p)
    /\ articles_id_seq + PendingCreates < MaxArticles
    /\ \E content \in Contents, fields \in MediaFieldLists, fail \in IoFailures :
          LET r == SubmitArticleFields(fields, 1, uploads, <<>>, fail)
              base == [Idle EXCEPT !.handler = "submit_article",
                                   !.title = content.title,
                                   !.body = content.body,
                                   !.media_paths = r.media_paths]
          IN  /\ uploads' = r.uploads
              /\ req' = [req EXCEPT ![p] =
                    IF ~r.ok
                    THEN Respond(base, "InternalServerError", "Failed to " \o fail.op \o " file")
                    ELSE IF r.media_paths = <<>>
                    THEN Respond(base, "BadRequest", "Media file is required")
                    ELSE [base EXCEPT !.pc = "insert_article", !.bump_time = now]]
    /\ UNCHANGED <<store, articles_id_seq, comments_id_seq, now>>

\* INSERT INTO articles (title, body, bump_time) ... RETURNING id
submit_article_insert(p) ==
    /\ req[p].pc = "insert_article"
    /\ \E ok \in BOOLEAN :
          IF ok
          THEN LET id == articles_id_seq + 1
               IN  /\ articles_id_seq' = id
                   /\ articles' = [a \in DOMAIN articles \cup {id} |->
                         IF a = id
                         THEN [title |-> req[p].title, body |-> req[p].body,
                               bump_time |-> req[p].bump_time]
                         ELSE articles[a]]
                   /\ req' = [req EXCEPT ![p].pc = "insert_media",
                                         ![p].article_id = <<id>>]
          ELSE /\ req' = [req EXCEPT ![p] =
                     Respond(@, "InternalServerError", "Database insert failed")]
               /\ UNCHANGED <<articles, articles_id_seq>>
    /\ UNCHANGED <<article_media, comments, comments_id_seq, uploads, now>>

\* for path in media_paths: INSERT INTO article_media (article_id, media_path)
submit_article_media(p) ==
    /\ req[p].pc = "insert_media"
    /\ \E ok \in BOOLEAN :
          IF ok /\ ForeignKeyHolds(req[p].article_id[1])
          THEN /\ article_media' = Append(article_media,
                     [article_id |-> req[p].article_id[1],
                      media_path |-> req[p].media_paths[req[p].next]])
               /\ req' = [req EXCEPT ![p] =
                     IF @.next = Len(@.media_paths)
                     THEN Respond(@, "Found", "/articles")
                     ELSE [@ EXCEPT !.next = @ + 1]]
          ELSE /\ req' = [req EXCEPT ![p] =
                     Respond(@, "InternalServerError", "Failed to store media")]
               /\ UNCHANGED article_media
    /\ UNCHANGED <<articles, comments, articles_id_seq, comments_id_seq,
                   uploads, now>>

----------------------------------------------------------------------------
(* submit_comment: POST /articles/{id}/comment *)

\* INSERT INTO comments (article_id, comment); the id is drawn before the
\* foreign key is checked, so a rejected insert uses one up as well.
submit_comment_insert(p) ==
    /\ Arrives(p)
    /\ comments_id_seq < MaxComments
    /\ \E article_id \in ArticleIds, comment \in CommentTexts, ok \in BOOLEAN :
          LET r == [Idle EXCEPT !.handler = "submit_comment",
                                !.id = article_id, !.comment = comment]
          IN  IF ~ok
              THEN /\ req' = [req EXCEPT ![p] =
                         Respond(r, "InternalServerError", "Failed to store comment.")]
                   /\ UNCHANGED <<comments, comments_id_seq>>
              ELSE /\ comments_id_seq' = comments_id_seq + 1
                   /\ IF ForeignKeyHolds(article_id)
                      THEN /\ comments' = Append(comments,
                                 [id |-> comments_id_seq + 1,
                                  article_id |-> article_id, comment |-> comment])
                           /\ req' = [req EXCEPT ![p] =
                                 [r EXCEPT !.pc = "read_time",
                                           !.row = <<comments_id_seq + 1>>]]
                      ELSE /\ req' = [req EXCEPT ![p] =
                                 Respond(r, "InternalServerError", "Failed to store comment.")]
                           /\ UNCHANGED comments
    /\ UNCHANGED <<articles, article_media, articles_id_seq, uploads, now>>

\* let new_bump_time = Utc::now().timestamp();
submit_comment_now(p) ==
    /\ req[p].pc = "read_time"
    /\ req' = [req EXCEPT ![p].pc = "bump", ![p].bump_time = now]
    /\ UNCHANGED <<store, articles_id_seq, comments_id_seq, uploads, now>>

\* UPDATE articles SET bump_time = $1 WHERE id = $2
SetBumpTime(rows, a, t) ==
    [x \in DOMAIN rows |-> IF x = a THEN [rows[x] EXCEPT !.bump_time = t] ELSE rows[x]]

submit_comment_bump(p) ==
    /\ req[p].pc = "bump"
    /\ \E ok \in BOOLEAN :
          IF ok
          THEN /\ articles' = SetBumpTime(articles, req[p].id, req[p].bump_time)
               /\ req' = [req EXCEPT ![p] =
                     Respond(@, "Found", "/articles/" \o ToString(@.id))]
          ELSE /\ req' = [req EXCEPT ![p] =
                     Respond(@, "InternalServerError", "Failed to bump article.")]
               /\ UNCHANGED articles
    /\ UNCHANGED <<article_media, comments, articles_id_seq, comments_id_seq,
                   uploads, now>>

----------------------------------------------------------------------------
(* delete_article: POST /articles/{id}/delete *)

\* delete_article answering Found without a DELETE that reaches the row.
delete_article_no_delete(p) ==
    /\ Arrives(p)
    /\ \E article_id \in ArticleIds, password \in Passwords :
          LET r == [Idle EXCEPT !.handler = "delete_article",
                                !.id = article_id, !.password = password]
          IN  req' = [req EXCEPT ![p] =
                 IF password # ADMIN_PASSWORD
                 THEN Respond(r, "Unauthorized", "Incorrect password")
                 ELSE Respond(r, "Found", "/articles")]
    /\ UNCHANGED <<store, articles_id_seq, comments_id_seq, uploads, now>>

\* delete_article without the comparison with ADMIN_PASSWORD.
delete_article_no_gate(p) ==
    /\ Arrives(p)
    /\ \E article_id \in ArticleIds, password \in Passwords :
          LET r == [Idle EXCEPT !.handler = "delete_article",
                                !.id = article_id, !.password = password]
          IN  /\ articles' = [a \in DOMAIN articles \ {article_id} |-> articles[a]]
              /\ article_media' = CascadeRows(article_media, article_id)
              /\ comments' = CascadeRows(comments, article_id)
              /\ req' = [req EXCEPT ![p] = Respond(r, "Found", "/articles")]
    /\ UNCHANGED <<articles_id_seq, comments_id_seq, uploads, now>>

\* DELETE FROM articles WHERE id = $1, with the cascade of the schema.
delete_article(p) ==
    /\ Arrives(p)
    /\ \E article_id \in ArticleIds, password \in Passwords, ok \in BOOLEAN :
          LET r == [Idle EXCEPT !.handler = "delete_article",
                                !.id = article_id, !.password = password]
          IN  IF password # ADMIN_PASSWORD
              THEN /\ req' = [req EXCEPT ![p] =
                         Respond(r, "Unauthorized", "Incorrect password")]
                   /\ UNCHANGED store
              ELSE IF ~ok
              THEN /\ req' = [req EXCEPT ![p] =
                         Respond(r, "InternalServerError", "Failed to delete article.")]
                   /\ UNCHANGED store
              ELSE /\ articles' = [a \in DOMAIN articles \ {article_id} |-> articles[a]]
                   /\ article_media' = CascadeRows(article_media, article_id)
                   /\ comments' = CascadeRows(comments, article_id)
                   /\ req' = [req EXCEPT ![p] = Respond(r, "Found", "/articles")]
    /\ UNCHANGED <<articles_id_seq, comments_id_seq, uploads, now>>

----------------------------------------------------------------------------
(* delete_comment: POST /comments/{id}/delete *)

\* delete_comment taking the id of its path for the article to go back to.
delete_comment_select_no_lookup(p) ==
    /\ Arrives(p)
    /\ \E comment_id \in CommentIds, password \in Passwords, ok \in BOOLEAN :
          LET r == [Idle EXCEPT !.handler = "delete_comment",
                                !.id = comment_id, !.password = password]
          IN  req' = [req EXCEPT ![p] =
                 IF password # ADMIN_PASSWORD
                 THEN Respond(r, "Unauthorized", "Incorrect password")
                 ELSE [r EXCEPT !.pc = "delete_comment",
                                !.article_id = <<comment_id>>]]
    /\ UNCHANGED <<store, articles_id_seq, comments_id_seq, uploads, now>>

\* SELECT article_id FROM comments WHERE id = $1; an error reads as None.
delete_comment_select(p) ==
    /\ Arrives(p)
    /\ \E comment_id \in CommentIds, password \in Passwords, ok \in BOOLEAN :
          LET r == [Idle EXCEPT !.handler = "delete_comment",
                                !.id = comment_id, !.password = password]
              found == SelectSeq(comments, LAMBDA row : row.id = comment_id)
          IN  req' = [req EXCEPT ![p] =
                 IF password # ADMIN_PASSWORD
                 THEN Respond(r, "Unauthorized", "Incorrect password")
                 ELSE [r EXCEPT !.pc = "delete_comment",
                                !.article_id =
                                    IF ok /\ found # <<>>
                                    THEN <<found[1].article_id>> ELSE <<>>]]
    /\ UNCHANGED <<store, articles_id_seq, comments_id_seq, uploads, now>>

\* DELETE FROM comments WHERE id = $1, then the redirect to the article or list.
delete_comment_delete(p) ==
    /\ req[p].pc = "delete_comment"
    /\ \E ok \in BOOLEAN :
          IF ok
          THEN /\ comments' = SelectSeq(comments, LAMBDA row : row.id # req[p].id)
               /\ req' = [req EXCEPT ![p] =
                     Respond(@, "Found",
                         IF @.article_id = <<>> THEN "/articles"
                         ELSE "/articles/" \o ToString(@.article_id[1]))]
          ELSE /\ req' = [req EXCEPT ![p] =
                     Respond(@, "InternalServerError", "Failed to delete comment.")]
               /\ UNCHANGED comments
    /\ UNCHANGED <<articles, article_media, articles_id_seq, comments_id_seq,
                   uploads, now>>

----------------------------------------------------------------------------
(* edit_article: POST /articles/{id}/edit *)

\* The multipart loop over the "media" fields: a field with a non-empty value
\* and a filename is written to ./uploads and becomes new_media.
RECURSIVE EditArticleFields(_, _, _, _, _)
EditArticleFields(fields, i, files, new_media, fail) ==
    IF i > Len(fields)
    THEN [uploads |-> files, new_media |-> new_media, ok |-> TRUE]
    ELSE IF fields[i].value = "" \/ fields[i].filename = <<>>
    THEN EditArticleFields(fields, i + 1, files, new_media, fail)
    ELSE IF fail = [at |-> i, op |-> "create"]
    THEN [uploads |-> files, new_media |-> new_media, ok |-> FALSE]
    ELSE IF fail = [at |-> i, op |-> "write"]
    THEN [uploads |-> WriteFile(files, fields[i].filename[1], ""),
          new_media |-> new_media, ok |-> FALSE]
    ELSE EditArticleFields(fields, i + 1,
             WriteFile(files, fields[i].filename[1], fields[i].value),
             <<StoredPath(fields[i].filename[1])>>, fail)

\* edit_article saving whatever title and body the form holds.
edit_article_parse_no_validation(p) ==
    /\ Arrives(p)
    /\ \E article_id \in ArticleIds, password \in Passwords, form \in EditForms,
          fields \in MediaFieldLists, fail \in IoFailures :
          LET r == EditArticleFields(fields, 1, uploads, <<>>, fail)
              base == [Idle EXCEPT !.handler = "edit_article", !.id = article_id,
                                   !.password = password, !.mode = form.mode,
                                   !.title = form.title, !.body = form.body,
                                   !.new_media = r.new_media]
          IN  /\ uploads' = r.uploads
              /\ req' = [req EXCEPT ![p] =
                    IF ~r.ok
                    THEN Respond(base, "InternalServerError", "Failed to " \o fail.op \o " file")
                    ELSE IF password # ADMIN_PASSWORD
                    THEN Respond(base, "Unauthorized", "Incorrect password")
                    ELSE IF form.mode = "check"
                    THEN [base EXCEPT !.pc = "check_article"]
                    ELSE IF form.mode = "save"
                    THEN [base EXCEPT !.pc = "save_update", !.bump_time = now]
                    ELSE Respond(base, "BadRequest", "Invalid mode")]
    /\ UNCHANGED <<store, articles_id_seq, comments_id_seq, now>>

\* edit_article applying the UPDATE of a save before the media field is stored.
edit_article_parse_update_first(p) ==
    /\ Arrives(p)
    /\ \E article_id \in ArticleIds, password \in Passwords, form \in EditForms,
          fields \in MediaFieldLists, fail \in IoFailures :
          LET r == EditArticleFields(fields, 1, uploads, <<>>, fail)
              base == [Idle EXCEPT !.handler = "edit_article", !.id = article_id,
                                   !.password = password, !.mode = form.mode,
                                   !.title = form.title, !.body = form.body,
                                   !.new_media = r.new_media]
              saves == /\ password = ADMIN_PASSWORD /\ form.mode = "save"
                       /\ form.title # "" /\ form.body # ""
          IN  /\ uploads' = r.uploads
              /\ articles' = [a \in DOMAIN articles |->
                    IF saves /\ a = article_id
                    THEN [title |-> form.title, body |-> form.body, bump_time |-> now]
                    ELSE articles[a]]
              /\ req' = [req EXCEPT ![p] =
                    IF ~r.ok
                    THEN Respond(base, "InternalServerError", "Failed to " \o fail.op \o " file")
                    ELSE IF password # ADMIN_PASSWORD
                    THEN Respond(base, "Unauthorized", "Incorrect password")
                    ELSE IF form.mode = "check"
                    THEN [base EXCEPT !.pc = "check_article"]
                    ELSE IF form.mode = "save"
                    THEN IF form.title = "" \/ form.body = ""
                         THEN Respond(base, "BadRequest", "Title and body are required")
                         ELSE [base EXCEPT !.pc = "save_update", !.bump_time = now]
                    ELSE Respond(base, "BadRequest", "Invalid mode")]
    /\ UNCHANGED <<article_media, comments, articles_id_seq, comments_id_seq, now>>

\* edit_article with a session: a save is accepted only after a check of the
\* same article has shown the edit page.
edit_article_parse_session(p) ==
    /\ Arrives(p)
    /\ \E article_id \in ArticleIds, password \in Passwords, form \in EditForms,
          fields \in MediaFieldLists, fail \in IoFailures :
          LET r == EditArticleFields(fields, 1, uploads, <<>>, fail)
              base == [Idle EXCEPT !.handler = "edit_article", !.id = article_id,
                                   !.password = password, !.mode = form.mode,
                                   !.title = form.title, !.body = form.body,
                                   !.new_media = r.new_media]
              checked == \E t \in Tasks :
                            /\ req[t].handler = "edit_article" /\ req[t].mode = "check"
                            /\ req[t].id = article_id /\ req[t].resp = "Ok"
          IN  /\ uploads' = r.uploads
              /\ req' = [req EXCEPT ![p] =
                    IF ~r.ok
                    THEN Respond(base, "InternalServerError", "Failed to " \o fail.op \o " file")
                    ELSE IF password # ADMIN_PASSWORD
                    THEN Respond(base, "Unauthorized", "Incorrect password")
                    ELSE IF form.mode = "check"
                    THEN [base EXCEPT !.pc = "check_article"]
                    ELSE IF form.mode = "save"
                    THEN IF ~checked
                         THEN Respond(base, "Unauthorized", "No edit session")
                         ELSE IF form.title = "" \/ form.body = ""
                         THEN Respond(base, "BadRequest", "Title and body are required")
                         ELSE [base EXCEPT !.pc = "save_update", !.bump_time = now]
                    ELSE Respond(base, "BadRequest", "Invalid mode")]
    /\ UNCHANGED <<store, articles_id_seq, comments_id_seq, now>>

\* The form is read (and its file written), then the password and the mode
\* are looked at.
edit_article_parse(p) ==
    /\ Arrives(p)
    /\ \E article_id \in ArticleIds, password \in Passwords, form \in EditForms,
          fields \in MediaFieldLists, fail \in IoFailures :
          LET r == EditArticleFields(fields, 1, uploads, <<>>, fail)
              base == [Idle EXCEPT !.handler = "edit_article", !.id = article_id,
                                   !.password = password, !.mode = form.mode,
                                   !.title = form.title, !.body = form.body,
                                   !.new_media = r.new_media]
          IN  /\ uploads' = r.uploads
              /\ req' = [req EXCEPT ![p] =
                    IF ~r.ok
                    THEN Respond(base, "InternalServerError", "Failed to " \o fail.op \o " file")
                    ELSE IF password # ADMIN_PASSWORD
                    THEN Respond(base, "Unauthorized", "Incorrect password")
                    ELSE IF form.mode = "check"
                    THEN [base EXCEPT !.pc = "check_article"]
                    ELSE IF form.mode = "save"
                    THEN IF form.title = "" \/ form.body = ""
                         THEN Respond(base, "BadRequest", "Title and body are required")
                         ELSE [base EXCEPT !.pc = "save_update", !.bump_time = now]
                    ELSE Respond(base, "BadRequest", "Invalid mode")]
    /\ UNCHANGED <<store, articles_id_seq, comments_id_seq, now>>

\* The check page filled with the title and body of the form, not of the row.
edit_article_check_form_values(p) ==
    /\ req[p].pc = "check_article"
    /\ \E ok \in BOOLEAN :
          req' = [req EXCEPT ![p] =
             IF ok /\ ArticleFound(articles, @.id)
             THEN [@ EXCEPT !.pc = "check_media",
                            !.out = <<[title |-> req[p].title, body |-> req[p].body]>>]
             ELSE Respond(@, "InternalServerError", "Failed to fetch article")]
    /\ UNCHANGED <<store, articles_id_seq, comments_id_seq, uploads, now>>

\* mode == "check": SELECT id, title, body, bump_time FROM articles WHERE id = $1
edit_article_check(p) ==
    /\ req[p].pc = "check_article"
    /\ \E ok \in BOOLEAN :
          req' = [req EXCEPT ![p] =
             IF ok /\ ArticleFound(articles, @.id)
             THEN [@ EXCEPT !.pc = "check_media",
                            !.out = <<[title |-> articles[req[p].id].title,
                                       body |-> articles[req[p].id].body]>>]
             ELSE Respond(@, "InternalServerError", "Failed to fetch article")]
    /\ UNCHANGED <<store, articles_id_seq, comments_id_seq, uploads, now>>

\* SELECT media_path FROM article_media WHERE article_id = $1 LIMIT 1, and the
\* form with the current title, body and media.
edit_article_check_media(p) ==
    /\ req[p].pc = "check_media"
    /\ \E ok \in BOOLEAN :
          LET rows == RowsOf(article_media, req[p].id)
          IN  req' = [req EXCEPT ![p] =
                 IF ok
                 THEN Respond([@ EXCEPT !.media_paths =
                                  IF rows = <<>> THEN <<"">>
                                  ELSE <<rows[1].media_path>>],
                              "Ok", "Edit Article")
                 ELSE Respond(@, "InternalServerError", "Failed to fetch media")]
    /\ UNCHANGED <<store, articles_id_seq, comments_id_seq, uploads, now>>

\* mode == "save": UPDATE articles SET title, body, bump_time WHERE id = $4
edit_article_update(p) ==
    /\ req[p].pc = "save_update"
    /\ \E ok \in BOOLEAN :
          IF ok
          THEN /\ articles' = [a \in DOMAIN articles |->
                     IF a = req[p].id
                     THEN [title |-> req[p].title, body |-> req[p].body,
                           bump_time |-> req[p].bump_time]
                     ELSE articles[a]]
               /\ req' = [req EXCEPT ![p] =
                     IF @.new_media # <<>>
                     THEN [@ EXCEPT !.pc = "save_delete_media"]
                     ELSE Respond(@, "Found", "/articles/" \o ToString(@.id))]
          ELSE /\ req' = [req EXCEPT ![p] =
                     Respond(@, "InternalServerError", "Failed to update article")]
               /\ UNCHANGED articles
    /\ UNCHANGED <<article_media, comments, articles_id_seq, comments_id_seq,
                   uploads, now>>

\* DELETE FROM article_media WHERE article_id = $1
edit_article_delete_media(p) ==
    /\ req[p].pc = "save_delete_media"
    /\ \E ok \in BOOLEAN :
          IF ok
          THEN /\ article_media' = DeleteRowsOf(article_media, req[p].id)
               /\ req' = [req EXCEPT ![p].pc = "save_insert_media"]
          ELSE /\ req' = [req EXCEPT ![p] =
                     Respond(@, "InternalServerError", "Failed to delete old media")]
               /\ UNCHANGED article_media
    /\ UNCHANGED <<articles, comments, articles_id_seq, comments_id_seq,
                   uploads, now>>

\* INSERT INTO article_media (article_id, media_path) VALUES ($1, $2)
edit_article_insert_media(p) ==
    /\ req[p].pc = "save_insert_media"
    /\ \E ok \in BOOLEAN :
          IF ok /\ ForeignKeyHolds(req[p].id)
          THEN /\ article_media' = Append(article_media,
                     [article_id |-> req[p].id, media_path |-> req[p].new_media[1]])
               /\ req' = [req EXCEPT ![p] =
                     Respond(@, "Found", "/articles/" \o ToString(@.id))]
          ELSE /\ req' = [req EXCEPT ![p] =
                     Respond(@, "InternalServerError", "Failed to store new media")]
               /\ UNCHANGED article_media
    /\ UNCHANGED <<articles, comments, articles_id_seq, comments_id_seq,
                   uploads, now>>

----------------------------------------------------------------------------
(* view_article: GET /articles/{id} *)

\* SELECT id, title, body, bump_time FROM articles WHERE id = $1
view_article_select(p) ==
    /\ Arrives(p)
    /\ \E article_id \in ArticleIds, ok \in BOOLEAN :
          LET r == [Idle EXCEPT !.handler = "view_article", !.id = article_id]
          IN  req' = [req EXCEPT ![p] =
                 IF ok /\ ArticleFound(articles, article_id)
                 THEN [r EXCEPT !.pc = "view_media", !.out = <<articles[article_id]>>]
                 ELSE Respond(r, "NotFound", "Article not found")]
    /\ UNCHANGED <<store, articles_id_seq, comments_id_seq, uploads, now>>

\* SELECT media_path FROM article_media WHERE article_id = $1; an error
\* reads as no media.
view_article_media(p) ==
    /\ req[p].pc = "view_media"
    /\ \E ok \in BOOLEAN, rows \in ScanOrders(RowsOf(article_media, req[p].id)) :
          req' = [req EXCEPT ![p].pc = "view_comments",
                             ![p].media_paths =
                                 IF ok THEN [i \in 1..Len(rows) |-> rows[i].media_path]
                                 ELSE <<>>]
    /\ UNCHANGED <<store, articles_id_seq, comments_id_seq, uploads, now>>

\* SELECT id, comment FROM comments WHERE article_id = $1; an error reads as
\* no comments.  Then the page.
view_article_comments(p) ==
    /\ req[p].pc = "view_comments"
    /\ \E ok \in BOOLEAN, rows \in ScanOrders(RowsOf(comments, req[p].id)) :
          req' = [req EXCEPT ![p] =
             Respond([@ EXCEPT !.comments =
                        IF ok
                        THEN [i \in 1..Len(rows) |->
                                 [id |-> rows[i].id, comment |-> rows[i].comment]]
                        ELSE <<>>],
                     "Ok", @.out[1].title)]
    /\ UNCHANGED <<store, articles_id_seq, comments_id_seq, uploads, now>>

----------------------------------------------------------------------------
(* list_articles: GET /articles *)

\* ORDER BY bump_time DESC: every order of the rows in which no row comes
\* before one of a greater bump_time (rows of equal bump_time in any order).
RECURSIVE Orders(_)
Orders(ids) ==
    IF ids = {} THEN {<<>>}
    ELSE UNION {{<<a>> \o rest : rest \in Orders(ids \ {a})} :
                a \in {x \in ids : \A y \in ids :
                          articles[x].bump_time >= articles[y].bump_time}}

\* list_articles with ORDER BY bump_time ASC.
list_articles_ascending(p) ==
    /\ Arrives(p)
    /\ \E ok \in BOOLEAN, order \in Orders(DOMAIN articles) :
          LET r == [Idle EXCEPT !.handler = "list_articles"]
          IN  req' = [req EXCEPT ![p] =
                 IF ok
                 THEN Respond([r EXCEPT !.out =
                                  [i \in 1..Len(order) |->
                                      [id |-> order[Len(order) + 1 - i],
                                       title |-> articles[order[Len(order) + 1 - i]].title]]],
                              "Ok", "All Articles")
                 ELSE Respond(r, "InternalServerError", "Failed to load articles")]
    /\ UNCHANGED <<store, articles_id_seq, comments_id_seq, uploads, now>>

list_articles(p) ==
    /\ Arrives(p)
    /\ \E ok \in BOOLEAN, order \in Orders(DOMAIN articles) :
          LET r == [Idle EXCEPT !.handler = "list_articles"]
          IN  req' = [req EXCEPT ![p] =
                 IF ok
                 THEN Respond([r EXCEPT !.out =
                                  [i \in 1..Len(order) |->
                                      [id |-> order[i], title |-> articles[order[i]].title]]],
                              "Ok", "All Articles")
                 ELSE Respond(r, "InternalServerError", "Failed to load articles")]
    /\ UNCHANGED <<store, articles_id_seq, comments_id_seq, uploads, now>>

----------------------------------------------------------------------------
(* The clock and the specification *)

\* Utc::now() moves on.
Tick ==
    /\ now < MaxTime
    /\ now' = now + 1
    /\ UNCHANGED <<store, articles_id_seq, comments_id_seq, uploads, req>>

\* The database and the upload directory outlive the server.  At start-up
\* they are empty, or hold what an earlier run left: one article submitted
\* with a file and commented on once.
EmptyStore ==
    /\ articles = <<>>
    /\ article_media = <<>>
    /\ comments = <<>>
    /\ articles_id_seq = 0
    /\ comments_id_seq = 0
    /\ uploads = <<>>

EarlierRun ==
    /\ articles = <<[title |-> "T1", body |-> "B1", bump_time |-> 0]>>
    /\ article_media = <<[article_id |-> 1, media_path |-> StoredPath("a.png")]>>
    /\ comments = <<[id |-> 1, article_id |-> 1, comment |-> "hi"]>>
    /\ articles_id_seq = 1
    /\ comments_id_seq = 1
    /\ uploads = WriteFile(<<>>, "a.png", "x")

\* Or two articles, submitted within the same second, the first commented on.
EarlierRunOfTwo ==
    /\ articles = <<[title |-> "T1", body |-> "B1", bump_time |-> 0],
                    [title |-> "T2", body |-> "B2", bump_time |-> 0]>>
    /\ article_media = <<[article_id |-> 1, media_path |-> StoredPath("a.png")],
                         [article_id |-> 2, media_path |-> StoredPath("b.png")]>>
    /\ comments = <<[id |-> 1, article_id |-> 1, comment |-> "hi"]>>
    /\ articles_id_seq = 2
    /\ comments_id_seq = 1
    /\ uploads = WriteFile(WriteFile(<<>>, "a.png", "x"), "b.png", "y")

Init ==
    /\ EmptyStore \/ EarlierRun \/ EarlierRunOfTwo
    /\ now = 0
    /\ req = [t \in Tasks |-> Idle]

Step(p) ==
    \/ submit_article_parse(p)
    \/ submit_article_insert(p)
    \/ submit_article_media(p)
    \/ submit_comment_insert(p)
    \/ submit_comment_now(p)
    \/ submit_comment_bump(p)
    \/ delete_article(p)
    \/ delete_comment_select(p)
    \/ delete_comment_delete(p)
    \/ edit_article_parse(p)
    \/ edit_article_check(p)
    \/ edit_article_check_media(p)
    \/ edit_article_update(p)
    \/ edit_article_delete_media(p)
    \/ edit_article_insert_media(p)
    \/ view_article_select(p)
    \/ view_article_media(p)
    \/ view_article_comments(p)
    \/ list_articles(p)

Next == Tick \/ \E p \in Tasks : Step(p)

Spec == Init /\ [][Next]_vars

----------------------------------------------------------------------------
(* Properties *)

InFlight(t) == req[t].pc \notin {"idle", "done"}
Quiescent == \A t \in Tasks : ~InFlight(t)
Done(t, handler) == req[t].handler = handler /\ req[t].pc = "done"
NumRefs(a) == Len(RowsOf(article_media, a))
\* Task t has just arrived (its first step) in the step from the unprimed state.
Arrived(t, handler) == req[t].pc = "idle" /\ req'[t].handler = handler

\* C1: once every request has completed, every media reference and every
\* comment names an article that is in the store.
C1_OrphanFreedom ==
    Quiescent =>
        /\ \A i \in 1..Len(article_media) : article_media[i].article_id \in DOMAIN articles
        /\ \A i \in 1..Len(comments) : comments[i].article_id \in DOMAIN articles

\* A comment and an edit-save with a new file were both addressed to an
\* article that is not in the store, both requests have completed, and the
\* store holds media references and comments.
C1_Witness ==
    /\ Quiescent
    /\ article_media # <<>> /\ comments # <<>>
    /\ \E t, u \in Tasks :
          /\ Done(u, "submit_comment") /\ req[u].id \notin DOMAIN articles
          /\ Done(t, "edit_article") /\ req[t].id \notin DOMAIN articles
          /\ req[t].new_media # <<>>
          /\ req[t].text = "Failed to store new media"

\* C2: when a delete of article A answers Found, A is not in the store (a
\* view of A finds no row and answers NotFound) and no media reference and no
\* comment has article_id A.
C2_CascadingDelete ==
    [][\A t \in Tasks :
          Arrived(t, "delete_article") /\ req'[t].resp = "Found" =>
              /\ ~ArticleFound(articles', req'[t].id)
              /\ RowsOf(article_media', req'[t].id) = <<>>
              /\ RowsOf(comments', req'[t].id) = <<>>]_vars

\* Article 1 of the earlier run, with its media reference and its comment,
\* was deleted and then viewed.
C2_Witness ==
    \E t, u \in Tasks :
        /\ Done(t, "delete_article") /\ req[t].resp = "Found" /\ req[t].id = 1
        /\ articles_id_seq = 1 /\ comments_id_seq = 1
        /\ 1 \notin DOMAIN articles /\ article_media = <<>> /\ comments = <<>>
        /\ u > t /\ Done(u, "view_article") /\ req[u].id = 1
        /\ req[u].resp = "NotFound"

\* C3: no step lowers the bump_time of an article.
C3_BumpTimeMonotone ==
    [][\A a \in DOMAIN articles \cap DOMAIN articles' :
          articles'[a].bump_time >= articles[a].bump_time]_vars

\* C4: once a comment submission has returned, the comment row it inserted
\* is in the store exactly if it also applied the bump.
C4_CommentAtomicWithBump ==
    \A t \in Tasks :
        Done(t, "submit_comment") =>
            LET inserted == req[t].row # <<>> /\ HasComment(req[t].row[1])
                bumped == req[t].resp = "Found"
            IN  inserted <=> bumped

\* C5: an edit-save that replaces the media never leaves the article without
\* a reference between its statements, and once it has answered Found the
\* article has exactly one reference, to the file of a save that has run.
SavedFiles(a) ==
    {req[t].new_media[1] :
        t \in {u \in Tasks : /\ req[u].handler = "edit_article"
                             /\ req[u].id = a
                             /\ req[u].new_media # <<>>
                             /\ req[u].pc \in {"save_insert_media", "done"}}}

C5_MediaReplacementAtomic ==
    \A t \in Tasks :
        /\ req[t].handler = "edit_article"
        /\ req[t].new_media # <<>>
        /\ ArticleFound(articles, req[t].id)
        => /\ req[t].pc = "save_insert_media" => NumRefs(req[t].id) >= 1
           /\ req[t].pc = "done" /\ req[t].resp = "Found" =>
                 /\ NumRefs(req[t].id) = 1
                 /\ RowsOf(article_media, req[t].id)[1].media_path
                        \in SavedFiles(req[t].id)

\* C6: once a create request has returned, the article row it left has a
\* media reference; a create without media answers BadRequest and leaves no
\* row.
C6_ArticleHasMedia ==
    \A t \in Tasks :
        Done(t, "submit_article") =>
            /\ req[t].article_id # <<>> /\ ArticleFound(articles, req[t].article_id[1])
               => NumRefs(req[t].article_id[1]) >= 1
            /\ req[t].media_paths = <<>> /\ req[t].resp # "InternalServerError"
               => req[t].resp = "BadRequest" /\ req[t].article_id = <<>>

\* C7: an edit request with a wrong password, in any mode, answers
\* Unauthorized and changes no article and no media reference.
C7_EditRevalidatesCredential ==
    [][\A t \in Tasks :
          Arrived(t, "edit_article") /\ req'[t].password # ADMIN_PASSWORD =>
              /\ req'[t].pc = "done"
              /\ req'[t].resp = "Unauthorized"
              /\ articles' = articles
              /\ article_media' = article_media]_vars

\* C8: a delete request with a wrong password answers Unauthorized, and a
\* step of a delete request that changes the store belongs to a request
\* whose password is the configured one.
C8_PasswordGatedDeletion ==
    [][\A t \in Tasks :
          /\ req'[t] # req[t]
          /\ req'[t].handler \in {"delete_article", "delete_comment"}
          => /\ req'[t].password # ADMIN_PASSWORD =>
                   /\ req'[t].pc = "done"
                   /\ req'[t].resp = "Unauthorized"
             /\ store' # store => req'[t].password = ADMIN_PASSWORD]_vars

\* An article delete and a comment delete, each with a wrong password, were
\* refused while the article and the comment they name are in the store.
C8_Witness ==
    \E t, u \in Tasks :
        /\ Done(t, "delete_article") /\ req[t].password # ADMIN_PASSWORD
        /\ req[t].resp = "Unauthorized"
        /\ ArticleFound(articles, req[t].id)
        /\ Done(u, "delete_comment") /\ req[u].password # ADMIN_PASSWORD
        /\ req[u].resp = "Unauthorized"
        /\ HasComment(req[u].id)

\* The upload of task t failed: a storage error, raised before the fields
\* are validated.
StorageFailed(t) ==
    req[t].text \in {"Failed to create file", "Failed to write file"}

\* C9: a create request with an empty title, an empty body or no media path
\* answers BadRequest and creates no article row.
C9_CreateValidation ==
    \A t \in Tasks :
        /\ req[t].handler = "submit_article"
        /\ req[t].title = "" \/ req[t].body = "" \/ req[t].media_paths = <<>>
        /\ ~StorageFailed(t)
        => /\ req[t].article_id = <<>>
           /\ req[t].pc = "done" => req[t].resp = "BadRequest"

\* C10: a comment submission with an empty text answers BadRequest, one for
\* an article that is not in the store answers NotFound, and neither inserts
\* a comment row or changes an article.
C10_CommentValidation ==
    [][\A t \in Tasks :
          Arrived(t, "submit_comment") =>
              /\ req'[t].comment = "" =>
                    /\ req'[t].pc = "done" /\ req'[t].resp = "BadRequest"
                    /\ comments' = comments /\ articles' = articles
              /\ req'[t].comment # "" /\ ~ArticleFound(articles, req'[t].id) =>
                    /\ req'[t].pc = "done" /\ req'[t].resp = "NotFound"
                    /\ comments' = comments /\ articles' = articles]_vars

\* C11: an edit-save without a new file that answers Found for an article of
\* the store leaves the article with the submitted title and body, its media
\* references as they were, and a bump_time greater than the one it had.
C11_EditSaveWithoutMedia ==
    [][\A t \in Tasks :
          /\ req[t].pc = "save_update" /\ req[t].new_media = <<>>
          /\ ArticleFound(articles, req[t].id)
          /\ req'[t].resp = "Found"
          => /\ articles'[req[t].id].title = req[t].title
             /\ articles'[req[t].id].body = req[t].body
             /\ RowsOf(article_media', req[t].id) = RowsOf(article_media, req[t].id)
             /\ articles'[req[t].id].bump_time > articles[req[t].id].bump_time]_vars

C13_EditCheckReadOnly ==
    [][\A t \in Tasks :
          /\ req'[t] # req[t]
          /\ req'[t].handler = "edit_article" /\ req'[t].mode = "check"
          /\ req'[t].password = ADMIN_PASSWORD
          => /\ store' = store
             /\ req[t].pc = "check_article" /\ ArticleFound(articles, req[t].id) =>
                   \/ req'[t].resp = "InternalServerError"
                   \/ req'[t].out = <<[title |-> articles[req[t].id].title,
                                       body |-> articles[req[t].id].body]>>
             /\ req'[t].resp = "Ok" =>
                   req[t].pc = "check_media" /\ req'[t].out = req[t].out]_vars

\* An article whose title and body an earlier save set to T2 and B2 was sent
\* a check with the configured password; the page holds T2 and B2, and the
\* article, its media reference and its comment are as they were.
C13_Witness ==
    \E t \in Tasks :
        /\ Done(t, "edit_article") /\ req[t].mode = "check"
        /\ req[t].password = ADMIN_PASSWORD /\ req[t].resp = "Ok"
        /\ req[t].out = <<[title |-> "T2", body |-> "B2"]>>
        /\ ArticleFound(articles, req[t].id)
        /\ articles[req[t].id] = [title |-> "T2", body |-> "B2", bump_time |-> 0]
        /\ NumRefs(req[t].id) = 1 /\ Len(comments) = 1

\* C14: an edit request whose mode is neither check nor save answers
\* BadRequest (invalid mode) when its password is the configured one and its
\* form was read without a storage error, answers Unauthorized when its
\* password is wrong, and changes nothing in the store either way.
C14_UnknownEditPhase ==
    [][\A t \in Tasks :
          Arrived(t, "edit_article") /\ req'[t].mode \notin {"check", "save"} =>
              /\ req'[t].pc = "done" /\ store' = store
              /\ req'[t].password = ADMIN_PASSWORD /\ ~StorageFailed(t)' =>
                    req'[t].resp = "BadRequest" /\ req'[t].text = "Invalid mode"
              /\ req'[t].password # ADMIN_PASSWORD =>
                    req'[t].resp = "Unauthorized"]_vars

\* C15: once a create has answered Found, a view of the new id, with no other
\* request in between, finds the article, reads the submitted title and body
\* and exactly the submitted media paths, and a listing that answers holds
\* the new id.
C15_CreateGetRoundTrip ==
    [][\A t, u \in Tasks :
          /\ Done(t, "submit_article") /\ req[t].resp = "Found"
          /\ req[t].title # "" /\ req[t].body # ""
          => /\ Arrived(u, "view_article") /\ req'[u].id = req[t].article_id[1] =>
                   /\ req'[u].resp # "NotFound"
                   /\ req'[u].out[1].title = req[t].title
                   /\ req'[u].out[1].body = req[t].body
             /\ req[u].pc = "view_media" /\ req'[u].pc = "view_comments"
                /\ req[u].id = req[t].article_id[1] =>
                   req'[u].media_paths = req[t].media_paths
             /\ Arrived(u, "list_articles") /\ req'[u].resp = "Ok" =>
                   \E i \in 1..Len(req'[u].out) :
                       req'[u].out[i].id = req[t].article_id[1]]_vars

\* C16: a listing that answers holds every article of the store at the time
\* of the call exactly once, with its title, and no entry comes before one of
\* a greater bump_time.
C16_ListingOrder ==
    [][\A t \in Tasks :
          Arrived(t, "list_articles") /\ req'[t].resp = "Ok" =>
              LET out == req'[t].out
              IN  /\ {out[i].id : i \in 1..Len(out)} = DOMAIN articles
                  /\ Len(out) = Cardinality(DOMAIN articles)
                  /\ \A i \in 1..Len(out) : out[i].title = articles[out[i].id].title
                  /\ \A i \in 1..(Len(out) - 1) :
                        articles[out[i].id].bump_time
                            >= articles[out[i + 1].id].bump_time]_vars

\* A listing of two articles of different bump_time: the article created
\* later, at time 1, comes first.
C16_Witness ==
    \E t \in Tasks :
        /\ Done(t, "list_articles") /\ req[t].resp = "Ok"
        /\ Len(req[t].out) = 2
        /\ req[t].out[1].id = 2 /\ req[t].out[2].id = 1
        /\ DOMAIN articles = {1, 2}
        /\ articles[2].bump_time = 1 /\ articles[1].bump_time = 0

\* C17: the comments a view answers with are exactly the comment rows of the
\* article, in the order in which they were inserted (the order of the
\* table), so that a comment just inserted comes last.
C17_CommentListingOrder ==
    [][\A t \in Tasks :
          req[t].pc = "view_comments" /\ req'[t] # req[t] =>
              LET rows == RowsOf(comments, req[t].id)
              IN  req'[t].comments =
                      [i \in 1..Len(rows) |->
                          [id |-> rows[i].id, comment |-> rows[i].comment]]]_vars

\* C18: a comment delete with the configured password whose comment is not
\* in the store when its DELETE runs answers NotFound, unless the database
\* fails the statement, and changes nothing.
C18_DeleteAbsentComment ==
    [][\A t \in Tasks :
          /\ req[t].pc = "delete_comment" /\ req'[t] # req[t]
          /\ ~HasComment(req[t].id)
          =>  /\ req'[t].resp \in {"NotFound", "InternalServerError"}
              /\ store' = store]_vars

\* The article that owns comment c, if the comment is in the store.
ArticleOfComment(c) ==
    LET found == SelectSeq(comments, LAMBDA row : row.id = c)
    IN  IF found = <<>> THEN <<>> ELSE <<found[1].article_id>>

\* The Location a comment delete answers with for the article it looked up.
RedirectOf(article_id) ==
    IF article_id = <<>> THEN "/articles"
    ELSE "/articles/" \o ToString(article_id[1])

SameBytesBehindReferences(files1, files2) ==
    \A i \in 1..Len(article_media) :
        article_media[i].media_path \in DOMAIN files1 =>
            /\ article_media[i].media_path \in DOMAIN files2
            /\ files2[article_media[i].media_path] = files1[article_media[i].media_path]

\* C20: an edit request with a wrong password creates and overwrites no file
\* of the upload area; when it has answered Unauthorized the bytes behind
\* every media reference are those from before the request.
C20_GateBeforeStore ==
    [][\A t \in Tasks :
          Arrived(t, "edit_article") /\ req'[t].password # ADMIN_PASSWORD =>
              /\ uploads' = uploads
              /\ req'[t].resp = "Unauthorized" =>
                    SameBytesBehindReferences(uploads, uploads')]_vars

\* The media paths the store references for article a, as a set.
MediaSet(a) ==
    {RowsOf(article_media, a)[i].media_path : i \in 1..NumRefs(a)}

\* C21: when two edit-saves with the configured password and a new file each,
\* for the same article of the store, have both answered Found, the article's
\* title, body and media references are together those of one of the two.
C21_LastWriterWins ==
    \A t, u \in Tasks :
        /\ t # u
        /\ Done(t, "edit_article") /\ Done(u, "edit_article")
        /\ req[t].resp = "Found" /\ req[u].resp = "Found"
        /\ req[t].id = req[u].id /\ ArticleFound(articles, req[t].id)
        /\ req[t].new_media # <<>> /\ req[u].new_media # <<>>
        => \E w \in {t, u} :
              /\ articles[req[w].id].title = req[w].title
              /\ articles[req[w].id].body = req[w].body
              /\ MediaSet(req[w].id) = {req[w].new_media[1]}

\* C22: a create or an edit request whose File::create or write_all fails
\* answers 500 with the storage error in the step in which it arrives, which
\* is its only step, and that step inserts no article row and no media
\* reference and changes no title, body or bump_time.
C22_MediaWriteFailure ==
    [][\A t \in Tasks :
          /\ Arrived(t, "submit_article") \/ Arrived(t, "edit_article")
          /\ StorageFailed(t)'
          => /\ req'[t].pc = "done" /\ req'[t].resp = "InternalServerError"
             /\ store' = store
             /\ articles_id_seq' = articles_id_seq]_vars

\* A save with the configured password, title T2 and a file whose storing
\* failed, and a create whose file failed: article 1 is the only article and
\* has the title and the media reference of the earlier run.
C22_Witness ==
    \E t, u \in Tasks :
        /\ Done(t, "edit_article") /\ StorageFailed(t)
        /\ req[t].password = ADMIN_PASSWORD /\ req[t].mode = "save"
        /\ req[t].id = 1 /\ req[t].title = "T2"
        /\ Done(u, "submit_article") /\ StorageFailed(u)
        /\ DOMAIN articles = {1} /\ articles[1].title = "T1"
        /\ articles_id_seq = 1
        /\ MediaSet(1) = {StoredPath("a.png")}

\* C23: what a save with the configured password answers and changes is
\* fixed by its own fields and the rows of the store, whatever other requests
\* (a check among them) have run before: read without a storage error it is
\* refused for an empty title or body and accepted otherwise; its UPDATE
\* writes its title, body and time to the row of its id and to nothing else;
\* its DELETE and INSERT replace the references of its id by its file; and it
\* answers Found when its last statement has run.
C23_EditStateless ==
    [][\A t \in Tasks :
          /\ req'[t] # req[t]
          /\ req'[t].handler = "edit_article" /\ req'[t].mode = "save"
          /\ req'[t].password = ADMIN_PASSWORD
          => IF req'[t].resp = "InternalServerError" THEN store' = store
             ELSE CASE req[t].pc = "idle" ->
                         /\ store' = store
                         /\ IF req'[t].title = "" \/ req'[t].body = ""
                            THEN req'[t].resp = "BadRequest"
                            ELSE req'[t].pc = "save_update"
                    [] req[t].pc = "save_update" ->
                         /\ articles' = [a \in DOMAIN articles |->
                               IF a = req[t].id
                               THEN [title |-> req[t].title, body |-> req[t].body,
                                     bump_time |-> req[t].bump_time]
                               ELSE articles[a]]
                         /\ article_media' = article_media /\ comments' = comments
                         /\ IF req[t].new_media = <<>>
                            THEN req'[t].resp = "Found"
                            ELSE req'[t].pc = "save_delete_media"
                    [] req[t].pc = "save_delete_media" ->
                         /\ article_media' = DeleteRowsOf(article_media, req[t].id)
                         /\ articles' = articles /\ comments' = comments
                         /\ req'[t].pc = "save_insert_media"
                    [] req[t].pc = "save_insert_media" ->
                         /\ article_media' = Append(article_media,
                               [article_id |-> req[t].id,
                                media_path |-> req[t].new_media[1]])
                         /\ articles' = articles /\ comments' = comments
                         /\ req'[t].resp = "Found"]_vars

\* A check of article 1 showed the page with T1 and B1, and a save of
\* article 1 with title T2, body B2 and a new file answered Found: the row
\* and the reference are those of the save, as they are for a save with no
\* check before it.
C23_Witness ==
    \E t, u \in Tasks :
        /\ Done(t, "edit_article") /\ req[t].mode = "check" /\ req[t].resp = "Ok"
        /\ req[t].id = 1 /\ req[t].out = <<[title |-> "T1", body |-> "B1"]>>
        /\ Done(u, "edit_article") /\ req[u].mode = "save" /\ req[u].resp = "Found"
        /\ req[u].id = 1 /\ req[u].title = "T2" /\ req[u].new_media # <<>>
        /\ articles[1].title = "T2" /\ articles[1].body = "B2"
        /\ MediaSet(1) = {req[u].new_media[1]} /\ NumRefs(1) = 1

\* C24: when a comment or an edit-save on article A has answered Found and is
\* the only request that has run, a listing that answers holds A as its
\* first entry.
C24_BumpToTop ==
    [][\A t, u \in Tasks :
          /\ t # u
          /\ \A w \in Tasks \ {t, u} : req[w].pc = "idle"
          /\ \/ Done(t, "submit_comment")
             \/ Done(t, "edit_article") /\ req[t].mode = "save"
          /\ req[t].resp = "Found"
          /\ ArticleFound(articles, req[t].id)
          /\ Arrived(u, "list_articles") /\ req'[u].resp = "Ok"
          => req'[u].out[1].id = req[t].id]_vars

====
